---- MODULE Spec2Model ----
(***************************************************************************)
(* Phone-verification reconciliation of src/app.py: main() pulls the call  *)
(* records, extracts an identity from each summary, matches it against the *)
(* stored profile and sets accounts.phone_verification to 'verified' at    *)
(* the first full match.                                                   *)
(*                                                                         *)
(* Text is modelled as a sequence of one-character strings, so that        *)
(* lower(), strip(), split() and the similarity ratios are computed and    *)
(* not assumed.                                                            *)
(***************************************************************************)
EXTENDS Integers, Sequences, FiniteSets, TLC

(* ------------------------------ bounds -------------------------------- *)

\* Longest call list the call-log API returns.
MaxCalls == 2

\* Number of script runs (one per user interaction) of a session.
MaxRuns == 2

\* Longest text compare_with_fuzzy_match is called with on its own.
MaxLen == 3

\* Number of database operations in a sequence examined on its own.
MaxOps == 3

(* ------------------------------- text --------------------------------- *)

\* The characters in use, in code-point order (Python compares str by code point).
Alphabet == <<" ", "-", "1", "2", "5", "9", "A", "S", "a", "l", "m", "n", "s", "t", "x">>

Ord(c) == CHOOSE k \in 1..Len(Alphabet) : Alphabet[k] = c

Min(x, y) == IF x <= y THEN x ELSE y

Max(x, y) == IF x >= y THEN x ELSE y

\* str.lower() on one character.
LowerChar(c) == CASE c = "A" -> "a" [] c = "S" -> "s" [] OTHER -> c

\* str.lower()
Lower(s) == [k \in 1..Len(s) |-> LowerChar(s[k])]

IsSpace(c) == c = " "

RECURSIVE LStrip(_)
LStrip(s) == IF s # <<>> /\ IsSpace(Head(s)) THEN LStrip(Tail(s)) ELSE s

RECURSIVE RStrip(_)
RStrip(s) == IF s # <<>> /\ IsSpace(s[Len(s)]) THEN RStrip(SubSeq(s, 1, Len(s) - 1)) ELSE s

\* str.strip()
Strip(s) == RStrip(LStrip(s))

\* str.split(): the maximal runs of non-whitespace characters, in order.
RECURSIVE Split(_)
Split(s) ==
    LET t == LStrip(s)
    IN  IF t = <<>> THEN <<>>
        ELSE LET n == IF \E k \in 1..Len(t) : IsSpace(t[k])
                      THEN (CHOOSE k \in 1..Len(t) :
                               IsSpace(t[k]) /\ \A m \in 1..(k - 1) : ~IsSpace(t[m])) - 1
                      ELSE Len(t)
             IN  <<SubSeq(t, 1, n)>> \o Split(SubSeq(t, n + 1, Len(t)))

\* Python's str ordering: lexicographic by code point, a proper prefix first.
RECURSIVE StrLeq(_, _)
StrLeq(s, t) ==
    IF s = <<>> THEN TRUE
    ELSE IF t = <<>> THEN FALSE
    ELSE IF Head(s) = Head(t) THEN StrLeq(Tail(s), Tail(t))
    ELSE Ord(Head(s)) < Ord(Head(t))

RECURSIVE Insert(_, _)
Insert(w, ws) ==
    IF ws = <<>> THEN <<w>>
    ELSE IF StrLeq(w, Head(ws)) THEN <<w>> \o ws
    ELSE <<Head(ws)>> \o Insert(w, Tail(ws))

\* sorted(tokens)
RECURSIVE Sorted(_)
Sorted(ws) == IF ws = <<>> THEN <<>> ELSE Insert(Head(ws), Sorted(Tail(ws)))

\* " ".join(tokens)
RECURSIVE Join(_)
Join(ws) ==
    IF ws = <<>> THEN <<>>
    ELSE IF Len(ws) = 1 THEN Head(ws)
    ELSE Head(ws) \o <<" ">> \o Join(Tail(ws))

(* ------------------------- fuzzywuzzy.fuzz ---------------------------- *)

\* difflib.SequenceMatcher.find_longest_match over the whole of a and b: the
\* blocks <<i, j, k>> with a[i..i+k-1] = b[j..j+k-1].
CommonBlocks(a, b) ==
    {c \in (1..Len(a)) \X (1..Len(b)) \X (1..Min(Len(a), Len(b))) :
        /\ c[1] + c[3] - 1 <= Len(a)
        /\ c[2] + c[3] - 1 <= Len(b)
        /\ SubSeq(a, c[1], c[1] + c[3] - 1) = SubSeq(b, c[2], c[2] + c[3] - 1)}

\* The longest block; of those the one starting earliest in a, then earliest in b.
LongestMatch(a, b) ==
    LET cs == CommonBlocks(a, b)
    IN  CHOOSE c \in cs : \A d \in cs :
            \/ c[3] > d[3]
            \/ c[3] = d[3] /\ c[1] < d[1]
            \/ c[3] = d[3] /\ c[1] = d[1] /\ c[2] <= d[2]

\* Total size of SequenceMatcher.get_matching_blocks(): the longest block, then
\* the same to its left and to its right.
RECURSIVE MatchingSize(_, _)
MatchingSize(a, b) ==
    IF CommonBlocks(a, b) = {} THEN 0
    ELSE LET c == LongestMatch(a, b)
         IN  c[3] + MatchingSize(SubSeq(a, 1, c[1] - 1), SubSeq(b, 1, c[2] - 1))
                  + MatchingSize(SubSeq(a, c[1] + c[3], Len(a)), SubSeq(b, c[2] + c[3], Len(b)))

\* utils.intr(100 * 2.0 * m / t): int(round(x)), Python 3 rounding half to even.
Intr(m, t) ==
    LET q == (200 * m) \div t
        r == (200 * m) % t
    IN  IF 2 * r < t THEN q
        ELSE IF 2 * r > t THEN q + 1
        ELSE IF q % 2 = 0 THEN q ELSE q + 1

\* fuzz.ratio on two str: 100 for equal strings, 0 when one is empty, else the
\* rounded SequenceMatcher ratio.
Ratio(a, b) ==
    IF a = b THEN 100
    ELSE IF a = <<>> \/ b = <<>> THEN 0
    ELSE Intr(MatchingSize(a, b), Len(a) + Len(b))

IsAlnum(c) == c \notin {" ", "-"}

\* utils.full_process: non-alphanumerics to blanks, lower, strip.
FullProcess(s) == Strip(Lower([k \in 1..Len(s) |-> IF IsAlnum(s[k]) THEN s[k] ELSE " "]))

\* fuzz._process_and_sort
ProcessAndSort(s) == Strip(Join(Sorted(Split(FullProcess(s)))))

\* fuzz.token_sort_ratio
TokenSortRatio(a, b) == Ratio(ProcessAndSort(a), ProcessAndSort(b))

(* ------------------------------ values -------------------------------- *)

\* A Python value that a JSON field or a text column can hold: a str, None
\* (JSON null, SQL NULL, a missing key read with .get) or a number.
Str(s) == [k |-> "str", s |-> s]

None == [k |-> "none", s |-> <<>>]

Num == [k |-> "num", s |-> <<>>]

\* Python truthiness: None and "" are false; a str with characters and a
\* (non-zero) number are true.
Truthy(v) == v.k = "num" \/ (v.k = "str" /\ v.s # <<>>)

\* The default threshold of compare_with_fuzzy_match.
Threshold == 80

\* The comparison with > in place of >=.
compare_strictly_above(str1, str2, threshold) ==
    IF ~Truthy(str1) \/ ~Truthy(str2)
    THEN [raised |-> FALSE, value |-> FALSE, scored |-> FALSE]
    ELSE IF str1.k # "str" \/ str2.k # "str"
    THEN [raised |-> TRUE, value |-> FALSE, scored |-> FALSE]
    ELSE LET s1 == Strip(Lower(str1.s))
             s2 == Strip(Lower(str2.s))
         IN  [raised |-> FALSE,
              value |-> Max(Ratio(s1, s2), TokenSortRatio(s1, s2)) > threshold,
              scored |-> TRUE]

\* The comparison without the check of line 150.
compare_without_empty_check(str1, str2, threshold) ==
    IF str1.k # "str" \/ str2.k # "str"
    THEN [raised |-> TRUE, value |-> FALSE, scored |-> FALSE]
    ELSE LET s1 == Strip(Lower(str1.s))
             s2 == Strip(Lower(str2.s))
         IN  [raised |-> FALSE,
              value |-> Max(Ratio(s1, s2), TokenSortRatio(s1, s2)) >= threshold,
              scored |-> TRUE]

\* compare_with_fuzzy_match(str1, str2, threshold): value is the bool returned,
\* raised says that .lower() was called on a value that is no str, scored that
\* the two ratios were computed.
compare_with_fuzzy_match(str1, str2, threshold) ==
    IF ~Truthy(str1) \/ ~Truthy(str2)
    THEN [raised |-> FALSE, value |-> FALSE, scored |-> FALSE]
    ELSE IF str1.k # "str" \/ str2.k # "str"
    THEN [raised |-> TRUE, value |-> FALSE, scored |-> FALSE]
    ELSE LET s1 == Strip(Lower(str1.s))
             s2 == Strip(Lower(str2.s))
             ratio == Ratio(s1, s2)
             token_sort_ratio == TokenSortRatio(s1, s2)
         IN  [raised |-> FALSE, value |-> Max(ratio, token_sort_ratio) >= threshold,
              scored |-> TRUE]


(* ----------------------- extract_info_from_summary -------------------- *)

\* The text of a model response is a sequence of tokens: FENCE a code-fence
\* marker (three backticks), json the language label, WS white space, OBJ the
\* text of a JSON object, ARR the text of a JSON value that is no object, TXT
\* prose.
Fence == "FENCE"

IsBlank(tok) == tok = "WS"

RECURSIVE LStripTok(_)
LStripTok(c) == IF c # <<>> /\ IsBlank(Head(c)) THEN LStripTok(Tail(c)) ELSE c

RECURSIVE RStripTok(_)
RStripTok(c) == IF c # <<>> /\ IsBlank(c[Len(c)]) THEN RStripTok(SubSeq(c, 1, Len(c) - 1)) ELSE c

\* content.strip()
StripTok(c) == RStripTok(LStripTok(c))

\* content.startswith(FENCE json)
StartsWithFenceJson(c) == Len(c) >= 2 /\ c[1] = Fence /\ c[2] = "json"

\* content.endswith(FENCE)
EndsWithFence(c) == c # <<>> /\ c[Len(c)] = Fence

\* content.replace(FENCE json, '', 1): the first fence directly followed by json.
ReplaceFirstFenceJson(c) ==
    IF \E k \in 1..(Len(c) - 1) : c[k] = Fence /\ c[k + 1] = "json"
    THEN LET k == CHOOSE k \in 1..(Len(c) - 1) :
                    /\ c[k] = Fence /\ c[k + 1] = "json"
                    /\ \A m \in 1..(k - 1) : ~(c[m] = Fence /\ c[m + 1] = "json")
         IN  SubSeq(c, 1, k - 1) \o SubSeq(c, k + 2, Len(c))
    ELSE c

\* content.replace(FENCE, '', 1): the first fence, wherever it stands.
ReplaceFirstFence(c) ==
    IF \E k \in 1..Len(c) : c[k] = Fence
    THEN LET k == CHOOSE k \in 1..Len(c) : c[k] = Fence /\ \A m \in 1..(k - 1) : c[m] # Fence
         IN  SubSeq(c, 1, k - 1) \o SubSeq(c, k + 1, Len(c))
    ELSE c

\* Lines 121-129: strip, drop a leading fence with its label, drop a fence, strip.
CleanContent(content) ==
    LET c0 == StripTok(content)
        c1 == IF StartsWithFenceJson(c0) THEN ReplaceFirstFenceJson(c0) ELSE c0
        c2 == IF EndsWithFence(c1) THEN ReplaceFirstFence(c1) ELSE c1
    IN  StripTok(c2)

\* json.loads(content): "object" or "other" for the one JSON value the text
\* holds, "error" (JSONDecodeError) for anything else.
JsonLoads(c) ==
    IF c = <<"OBJ">> THEN "object"
    ELSE IF c = <<"ARR">> THEN "other"
    ELSE "error"

\* A key the JSON object does not hold.
Absent == [k |-> "absent", s |-> <<>>]

Fields == {"username", "name", "phone", "address"}

\* dict.get(key): None for a missing key.
Get(obj, key) == IF obj[key].k = "absent" THEN None ELSE obj[key]

\* A check that is content with one value.
HasSomeData(obj) ==
    \/ Truthy(Get(obj, "username"))
    \/ Truthy(Get(obj, "name"))
    \/ Truthy(Get(obj, "phone"))
    \/ Truthy(Get(obj, "address"))

\* Lines 135-138: all four values are truthy.
HasValidData(obj) ==
    /\ Truthy(Get(obj, "username"))
    /\ Truthy(Get(obj, "name"))
    /\ Truthy(Get(obj, "phone"))
    /\ Truthy(Get(obj, "address"))

NoInfo == [username |-> None, name |-> None, phone |-> None, address |-> None]

\* The value extract_info_from_summary returns: None, or the dict.
ReturnNone == [some |-> FALSE, raised |-> FALSE, exc |-> "", info |-> NoInfo]

ReturnInfo(obj) == [some |-> TRUE, raised |-> FALSE, exc |-> "", info |-> obj]

\* The exception exc is raised.
Raise(exc) == [some |-> FALSE, raised |-> TRUE, exc |-> exc, info |-> NoInfo]

\* A response of the completion service: kind "error" (the request raised),
\* "nochoices" (choices is empty: IndexError), "nocontent" (message.content is
\* None: AttributeError) or "content", with the text tokens and the JSON object
\* that the token OBJ stands for.
Response(kind, content, obj) == [kind |-> kind, content |-> content, obj |-> obj]

\* Lines 113-142, the body of the try statement: the request, the clean-up,
\* json.loads and the check of the four values.  A value that is no dict has
\* no .get (AttributeError).
TryBody(summary, resp) ==
    IF resp.kind = "error" THEN Raise("APIError")
    ELSE IF resp.kind = "nochoices" THEN Raise("IndexError")
    ELSE IF resp.kind = "nocontent" THEN Raise("AttributeError")
    ELSE LET parsed == JsonLoads(CleanContent(resp.content))
         IN  IF parsed = "error" THEN Raise("JSONDecodeError")
             ELSE IF parsed = "other" THEN Raise("AttributeError")
             ELSE IF HasValidData(resp.obj) THEN ReturnInfo(resp.obj)
             ELSE ReturnNone

\* A handler that catches the decoding error alone.
ExceptJSONDecodeError(result) ==
    IF result.raised /\ result.exc = "JSONDecodeError" THEN ReturnNone ELSE result

\* Lines 144-146: except Exception: return None
ExceptException(result) == IF result.raised THEN ReturnNone ELSE result

\* extract_info_from_summary(summary)
extract_info_from_summary(summary, resp) == ExceptException(TryBody(summary, resp))

(* --------------------------- the database ----------------------------- *)

UserA == <<"a">>

UserACap == <<"A">>

UserB == <<"b">>

\* The usernames that occur as keys, in calls or as input.
Usernames == {UserA, UserACap, UserB}

\* The values of a verification column.
Statuses == {"verified", "not verified", "pending"}

\* A row of accounts, or the absence of the row (fetchrow gives None).
Account(photo, doc, phone) == [exists |-> TRUE, photo |-> photo, doc |-> doc, phone |-> phone]

NoAccount == [exists |-> FALSE, photo |-> "", doc |-> "", phone |-> ""]

\* A row of users (name, phone, address: text or NULL), or its absence.
Profile(name, phone, address) == [exists |-> TRUE, name |-> name, phone |-> phone, address |-> address]

NoProfile == [exists |-> FALSE, name |-> None, phone |-> None, address |-> None]

NameA == <<"a", "l", " ", "s", "m">>

PhoneA == <<"5", "5", "5", "1">>

AddressA == <<"1", " ", "m", " ", "s", "t">>

ProfileA == Profile(Str(NameA), Str(PhoneA), Str(AddressA))

\* A profile whose phone column is NULL.
ProfileB == Profile(Str(NameA), None, Str(AddressA))

\* The UPDATE without its WHERE clause.
UpdateEveryRow(accts, username, status) ==
    [u \in DOMAIN accts |->
        IF accts[u].exists THEN [accts[u] EXCEPT !.phone = status] ELSE accts[u]]

\* An UPDATE that flips the column: a row that holds status goes back to pending.
UpdateToggle(accts, username, status) ==
    [u \in DOMAIN accts |->
        IF u = username /\ accts[u].exists
        THEN [accts[u] EXCEPT !.phone = IF @ = status THEN "pending" ELSE status]
        ELSE accts[u]]

\* UPDATE accounts SET phone_verification = status WHERE username = username
UpdateStatement(accts, username, status) ==
    [u \in DOMAIN accts |->
        IF u = username /\ accts[u].exists THEN [accts[u] EXCEPT !.phone = status] ELSE accts[u]]

\* SELECT ... FROM accounts / users WHERE username = username
SelectRow(table, username) == table[username]

(* ------------------------ inputs of a run ----------------------------- *)

\* What st.text_input gives: a username, or the empty string.
UsernameInputs == Usernames \cup {<<>>}

\* The summary of a call record: a text, or '' (also the default of a missing key).
Summaries == {Str(<<"s">>), Str(<<>>)}

CallRecord(summary) == [summary |-> summary]

\* response.json().get('calls', []): the call lists of up to MaxCalls records.
CallLists == UNION {[1..n -> {CallRecord(s) : s \in Summaries}] : n \in 0..MaxCalls}

\* Values the model reports for each field.  Names: a case and white-space
\* variant of NameA (ratio 100), one character off (ratio 80), two off (60),
\* or no such key.
NameValues == {Str(<<" ", "A", "l", " ", "S", "m">>), Str(<<"a", "l", " ", "s", "n">>),
               Str(<<"a", "l", " ", "x", "x">>), Absent}

\* Phones: PhoneA with a dash (ratio 89), one digit off (75), or a JSON number.
PhoneValues == {Str(<<"5", "5", "5", "-", "1">>), Str(<<"5", "5", "5", "2">>), Num}

\* Addresses: AddressA in another word order (token sort ratio 100), or null.
AddressValues == {Str(<<"s", "t", " ", "1", " ", "m">>), None}

UsernameValues == {Str(UserA), Str(UserACap), Str(UserB), None}

JsonObjects ==
    [username : UsernameValues, name : NameValues, phone : PhoneValues, address : AddressValues]

\* Texts of a response that hold a JSON object: bare, in a labelled fence, in
\* an unlabelled fence.
ObjectContents == {<<"OBJ">>,
                   <<Fence, "json", "WS", "OBJ", "WS", Fence>>,
                   <<Fence, "WS", "OBJ", "WS", Fence>>}

\* Texts that hold none: prose, a JSON value that is no object, nothing.
OtherContents == {<<"TXT">>, <<"ARR">>, <<>>}

Responses ==
    {Response(k, <<>>, NoInfo) : k \in {"error", "nochoices", "nocontent"}}
        \cup {Response("content", c, NoInfo) : c \in OtherContents}
        \cup {Response("content", c, o) : c \in ObjectContents, o \in JsonObjects}

NoResponse == Response("none", <<>>, NoInfo)

(* ------------------------------ state --------------------------------- *)

\* One Streamlit session runs main() once per interaction.
Procs == {1}

VARIABLES
    accounts,        \* table accounts: username -> row
    users,           \* table users: username -> row
    pc,              \* where each session's run of main() stands
    username,        \* main: username
    calls,           \* main: calls
    idx,             \* main: position of the for loop in calls (1-based)
    response,        \* extract_info_from_summary: the service's response
    extracted_info,  \* main: extracted_info
    user_details,    \* main: user_details
    ui,              \* what the run has put on the page
    hist,            \* per run: the operations done for each call record, the record
                     \* that matched, the UPDATEs executed, the account row at the start
    written,         \* every <<username, status>> an UPDATE was executed with
    runs,            \* script runs started so far
    cmp,             \* a call of compare_with_fuzzy_match: arguments and result
    conn             \* a database operation: its connection and its progress

dbvars == <<accounts, users>>

localvars == <<username, calls, idx, response, extracted_info, user_details>>

\* The operations examined on their own, outside main().
callvars == <<cmp, conn>>

vars == <<accounts, users, pc, username, calls, idx, response, extracted_info,
          user_details, ui, hist, written, runs, cmp, conn>>

\* exception: the function whose exception ended the run, "" if none did.
NoUi == [fetch_error |-> FALSE, success |-> FALSE, status |-> FALSE, no_user |-> FALSE,
         exception |-> ""]

NoHist == [extract |-> [k \in 1..MaxCalls |-> 0],
           lookup  |-> [k \in 1..MaxCalls |-> 0],
           match   |-> [k \in 1..MaxCalls |-> 0],
           visited |-> [k \in 1..MaxCalls |-> 0],
           matched |-> 0,
           writes  |-> 0,
           before  |-> NoAccount]

\* No call of compare_with_fuzzy_match under examination.
NoCmp == [called |-> FALSE, str1 |-> None, str2 |-> None, threshold |-> 0,
          result |-> [raised |-> FALSE, value |-> FALSE, scored |-> FALSE]]

\* No database operation in progress, no connection open.
NoConn == [op |-> "", username |-> <<>>, phase |-> "idle", open |-> 0, opened |-> 0,
           statements |-> 0, ops |-> 0, failed |-> FALSE]

Init ==
    /\ accounts \in {[u \in Usernames |->
                        IF u = UserA THEN a ELSE IF u = UserB THEN Account("pending", "verified", "pending")
                        ELSE NoAccount] :
                     a \in {NoAccount} \cup {Account("verified", "not verified", s) : s \in Statuses}}
    /\ users \in {[u \in Usernames |->
                        IF u = UserA THEN a ELSE IF u = UserB THEN ProfileB ELSE NoProfile] :
                  a \in {NoProfile, ProfileA}}
    /\ pc = [p \in Procs |-> "idle"]
    /\ username = [p \in Procs |-> <<>>]
    /\ calls = [p \in Procs |-> <<>>]
    /\ idx = [p \in Procs |-> 0]
    /\ response = [p \in Procs |-> NoResponse]
    /\ extracted_info = [p \in Procs |-> ReturnNone]
    /\ user_details = [p \in Procs |-> NoProfile]
    /\ ui = [p \in Procs |-> NoUi]
    /\ hist = [p \in Procs |-> NoHist]
    /\ cmp = NoCmp
    /\ conn = NoConn
    /\ written = {}
    /\ runs = 0


(* ------------------------------ main() -------------------------------- *)

\* The run of session p ends with an exception that nothing catches.
Crash(p, where) ==
    /\ pc' = [pc EXCEPT ![p] = "crashed"]
    /\ ui' = [ui EXCEPT ![p].exception = where]

\* A loop that takes the same call record again.
RetryCall(p) ==
    /\ pc' = [pc EXCEPT ![p] = "iter"]
    /\ idx' = [idx EXCEPT ![p] = @]
    /\ response' = [response EXCEPT ![p] = NoResponse]
    /\ extracted_info' = [extracted_info EXCEPT ![p] = ReturnNone]
    /\ user_details' = [user_details EXCEPT ![p] = NoProfile]

\* The for loop goes on to the next call record.  response, extracted_info and
\* user_details are dead there (each is assigned before it is read again), and
\* are cleared.
NextCall(p) ==
    /\ pc' = [pc EXCEPT ![p] = "iter"]
    /\ idx' = [idx EXCEPT ![p] = @ + 1]
    /\ response' = [response EXCEPT ![p] = NoResponse]
    /\ extracted_info' = [extracted_info EXCEPT ![p] = ReturnNone]
    /\ user_details' = [user_details EXCEPT ![p] = NoProfile]

\* The loop without its break.
ContinueLoop(p) == NextCall(p)

\* Line 209: break leaves the loop; the status display follows.
Break(p) ==
    /\ pc' = [pc EXCEPT ![p] = "status"]
    /\ UNCHANGED <<idx, response, extracted_info, user_details>>

\* Lines 174-180: the script starts with the text input and the button.
Start(p) ==
    /\ pc[p] = "idle"
    /\ runs < MaxRuns
    /\ runs' = runs + 1
    /\ \E u \in UsernameInputs, refresh \in BOOLEAN :
        /\ username' = [username EXCEPT ![p] = u]
        /\ hist' = [hist EXCEPT ![p] = [NoHist EXCEPT !.before =
                        IF u \in Usernames THEN accounts[u] ELSE NoAccount]]
        /\ pc' = [pc EXCEPT ![p] = IF u = <<>> THEN "done"
                                   ELSE IF refresh THEN "fetch" ELSE "status"]
    /\ UNCHANGED <<dbvars, calls, idx, response, extracted_info, user_details, ui, written>>
    /\ UNCHANGED callvars

\* A fetch that reports the failure and still hands call records to the loop.
FetchCallsFailureKeepsCalls(p) ==
    /\ pc[p] = "fetch"
    /\ \E cs \in CallLists :
        /\ calls' = [calls EXCEPT ![p] = cs]
        /\ \/ UNCHANGED ui
           \/ ui' = [ui EXCEPT ![p].fetch_error = TRUE]
    /\ idx' = [idx EXCEPT ![p] = 1]
    /\ pc' = [pc EXCEPT ![p] = "iter"]
    /\ UNCHANGED <<dbvars, username, response, extracted_info, user_details, hist, written, runs>>
    /\ UNCHANGED callvars

\* fetch_bland_calls, lines 77-88 and 183: the call list, or [] and an error
\* message on a RequestException (transport failure, non-2xx status).
FetchCalls(p) ==
    /\ pc[p] = "fetch"
    /\ \/ \E cs \in CallLists :
            /\ calls' = [calls EXCEPT ![p] = cs]
            /\ UNCHANGED ui
       \/ /\ calls' = [calls EXCEPT ![p] = <<>>]
          /\ ui' = [ui EXCEPT ![p].fetch_error = TRUE]
    /\ idx' = [idx EXCEPT ![p] = 1]
    /\ pc' = [pc EXCEPT ![p] = "iter"]
    /\ UNCHANGED <<dbvars, username, response, extracted_info, user_details, hist, written, runs>>
    /\ UNCHANGED callvars

\* Lines 186-188: the next call record, if any, and its summary.
Iterate(p) ==
    /\ pc[p] = "iter"
    /\ IF idx[p] > Len(calls[p])
       THEN /\ pc' = [pc EXCEPT ![p] = "status"]
            /\ UNCHANGED <<idx, response, extracted_info, user_details, hist>>
       ELSE /\ hist' = [hist EXCEPT ![p].visited[idx[p]] = @ + 1]
            /\ IF Truthy(calls[p][idx[p]].summary)
               THEN /\ pc' = [pc EXCEPT ![p] = "extract"]
                    /\ UNCHANGED <<idx, response, extracted_info, user_details>>
               ELSE NextCall(p)
    /\ UNCHANGED <<dbvars, username, calls, ui, written, runs>>
    /\ UNCHANGED callvars

\* Line 190: extract_info_from_summary(summary), on whatever the service answers.
Extract(p) ==
    /\ pc[p] = "extract"
    /\ \E resp \in Responses :
        LET result == extract_info_from_summary(calls[p][idx[p]].summary, resp)
        IN  /\ response' = [response EXCEPT ![p] = resp]
            /\ extracted_info' = [extracted_info EXCEPT ![p] = result]
            /\ IF result.raised
               THEN Crash(p, "extract_info_from_summary")
               ELSE /\ pc' = [pc EXCEPT ![p] = "gate"]
                    /\ UNCHANGED ui
    /\ hist' = [hist EXCEPT ![p].extract[idx[p]] = @ + 1]
    /\ UNCHANGED <<dbvars, username, calls, idx, user_details, written, runs>>
    /\ UNCHANGED callvars

\* A comparison that ignores case.
UsernameMatchesIgnoringCase(info, u) ==
    info.username.k = "str" /\ Lower(info.username.s) = Lower(u)

\* Line 195: extracted_info['username'] == username
UsernameMatches(info, u) == info.username = Str(u)

\* Lines 193-195: only a usable extraction for the target username goes on.
Gate(p) ==
    /\ pc[p] = "gate"
    /\ IF extracted_info[p].some /\ UsernameMatches(extracted_info[p].info, username[p])
       THEN /\ pc' = [pc EXCEPT ![p] = "resolve"]
            /\ UNCHANGED <<idx, response, extracted_info, user_details>>
       ELSE NextCall(p)
    /\ UNCHANGED <<dbvars, username, calls, ui, hist, written, runs>>
    /\ UNCHANGED callvars

\* A lookup that ends the loop when the row is missing.
ResolveStopsOnMissingRow(p) ==
    /\ pc[p] = "resolve"
    /\ \/ /\ hist' = [hist EXCEPT ![p].lookup[idx[p]] = @ + 1]
          /\ LET row == SelectRow(users, username[p])
             IN  IF row.exists
                 THEN /\ user_details' = [user_details EXCEPT ![p] = row]
                      /\ pc' = [pc EXCEPT ![p] = "match"]
                      /\ UNCHANGED <<idx, response, extracted_info, ui>>
                 ELSE Break(p) /\ UNCHANGED ui
       \/ /\ Crash(p, "get_user_details")
          /\ UNCHANGED <<idx, response, extracted_info, user_details, hist>>
    /\ UNCHANGED <<dbvars, username, calls, written, runs>>
    /\ UNCHANGED callvars

\* get_user_details, lines 54-62 and 197-199: the row, None, or an exception
\* of connect or fetchrow, which main does not catch.
Resolve(p) ==
    /\ pc[p] = "resolve"
    /\ \/ /\ hist' = [hist EXCEPT ![p].lookup[idx[p]] = @ + 1]
          /\ LET row == SelectRow(users, username[p])
             IN  IF row.exists
                 THEN /\ user_details' = [user_details EXCEPT ![p] = row]
                      /\ pc' = [pc EXCEPT ![p] = "match"]
                      /\ UNCHANGED <<idx, response, extracted_info, ui>>
                 ELSE NextCall(p) /\ UNCHANGED ui
       \/ /\ Crash(p, "get_user_details")
          /\ UNCHANGED <<idx, response, extracted_info, user_details, hist>>
    /\ UNCHANGED <<dbvars, username, calls, written, runs>>
    /\ UNCHANGED callvars

\* Lines 201-203: the three field comparisons.
name_match(info, details) == compare_with_fuzzy_match(info.name, details.name, Threshold)

phone_match(info, details) == compare_with_fuzzy_match(info.phone, details.phone, Threshold)

address_match(info, details) == compare_with_fuzzy_match(info.address, details.address, Threshold)

\* One of the comparisons raises (AttributeError: .lower() of a number).
MatchRaises(info, details) ==
    \/ name_match(info, details).raised
    \/ phone_match(info, details).raised
    \/ address_match(info, details).raised

\* A disjunction in place of the conjunction.
AnyMatch(info, details) ==
    \/ name_match(info, details).value
    \/ phone_match(info, details).value
    \/ address_match(info, details).value

\* Line 206: name_match and phone_match and address_match
AllMatch(info, details) ==
    /\ name_match(info, details).value
    /\ phone_match(info, details).value
    /\ address_match(info, details).value

\* Lines 201-206.
Match(p) ==
    /\ pc[p] = "match"
    /\ IF MatchRaises(extracted_info[p].info, user_details[p])
       THEN /\ Crash(p, "compare_with_fuzzy_match")
            /\ hist' = [hist EXCEPT ![p].match[idx[p]] = @ + 1]
            /\ UNCHANGED <<idx, response, extracted_info, user_details>>
       ELSE IF AllMatch(extracted_info[p].info, user_details[p])
       THEN /\ pc' = [pc EXCEPT ![p] = "write"]
            /\ hist' = [hist EXCEPT ![p].match[idx[p]] = @ + 1, ![p].matched = idx[p]]
            /\ UNCHANGED <<idx, response, extracted_info, user_details, ui>>
       ELSE /\ NextCall(p)
            /\ hist' = [hist EXCEPT ![p].match[idx[p]] = @ + 1]
            /\ UNCHANGED ui
    /\ UNCHANGED <<dbvars, username, calls, written, runs>>
    /\ UNCHANGED callvars

StatusPending == "pending"

\* Line 207: the status main passes to update_phone_verification.
NewStatus == "verified"

\* update_phone_verification, lines 64-75 and 207-209: the UPDATE, then the
\* success message and break; or an exception of connect or execute.
Write(p) ==
    /\ pc[p] = "write"
    /\ \/ /\ accounts' = UpdateStatement(accounts, username[p], NewStatus)
          /\ written' = written \cup {<<username[p], NewStatus>>}
          /\ hist' = [hist EXCEPT ![p].writes = @ + 1]
          /\ ui' = [ui EXCEPT ![p].success = TRUE]
          /\ Break(p)
       \/ /\ Crash(p, "update_phone_verification")
          /\ UNCHANGED <<accounts, written, hist, idx, response, extracted_info, user_details>>
    /\ UNCHANGED <<users, username, calls, runs>>
    /\ UNCHANGED callvars

\* get_user_verification_status, lines 36-52 and 212-247: the status page, the
\* "No user found" error, or an exception of connect or fetchrow.
ShowStatus(p) ==
    /\ pc[p] = "status"
    /\ \/ /\ LET user_data == SelectRow(accounts, username[p])
             IN  ui' = IF user_data.exists
                       THEN [ui EXCEPT ![p].status = TRUE]
                       ELSE [ui EXCEPT ![p].no_user = TRUE]
          /\ pc' = [pc EXCEPT ![p] = "done"]
       \/ Crash(p, "get_user_verification_status")
    /\ UNCHANGED <<dbvars, localvars, hist, written, runs>>
    /\ UNCHANGED callvars

\* The script run is over; the next interaction starts a fresh one.
Finish(p) ==
    /\ pc[p] \in {"done", "crashed"}
    /\ pc' = [pc EXCEPT ![p] = "idle"]
    /\ username' = [username EXCEPT ![p] = <<>>]
    /\ calls' = [calls EXCEPT ![p] = <<>>]
    /\ idx' = [idx EXCEPT ![p] = 0]
    /\ response' = [response EXCEPT ![p] = NoResponse]
    /\ extracted_info' = [extracted_info EXCEPT ![p] = ReturnNone]
    /\ user_details' = [user_details EXCEPT ![p] = NoProfile]
    /\ ui' = [ui EXCEPT ![p] = NoUi]
    /\ hist' = [hist EXCEPT ![p] = NoHist]
    /\ UNCHANGED <<dbvars, written, runs>>
    /\ UNCHANGED callvars

Next ==
    \E p \in Procs :
        \/ Start(p)
        \/ FetchCalls(p)
        \/ Iterate(p)
        \/ Extract(p)
        \/ Gate(p)
        \/ Resolve(p)
        \/ Match(p)
        \/ Write(p)
        \/ ShowStatus(p)
        \/ Finish(p)

Spec == Init /\ [][Next]_vars


\* extract_info_from_summary called on every summary, the empty one included,
\* and every response of the service.
InitExtract ==
    /\ accounts = [u \in Usernames |-> NoAccount]
    /\ users = [u \in Usernames |-> NoProfile]
    /\ pc = [p \in Procs |-> "extract"]
    /\ username = [p \in Procs |-> UserA]
    /\ calls \in {[p \in Procs |-> <<CallRecord(s)>>] : s \in Summaries}
    /\ idx = [p \in Procs |-> 1]
    /\ response = [p \in Procs |-> NoResponse]
    /\ extracted_info = [p \in Procs |-> ReturnNone]
    /\ user_details = [p \in Procs |-> NoProfile]
    /\ ui = [p \in Procs |-> NoUi]
    /\ hist = [p \in Procs |-> NoHist]
    /\ cmp = NoCmp
    /\ conn = NoConn
    /\ written = {}
    /\ runs = 1

NextExtract == \E p \in Procs : Extract(p)

SpecExtract == InitExtract /\ [][NextExtract]_vars

\* Two Streamlit sessions, each in its own script thread, run main() at once.
Sessions == {1, 2}

\* Both sessions have pressed Refresh for UserA, whose account is not verified,
\* and each has fetched a list of one call record with a summary.
InitConc ==
    /\ accounts \in {[u \in Usernames |->
                        IF u = UserA THEN Account("verified", "not verified", s)
                        ELSE IF u = UserB THEN Account("pending", "verified", "pending")
                        ELSE NoAccount] : s \in {"not verified", "pending"}}
    /\ users = [u \in Usernames |->
                    IF u = UserA THEN ProfileA ELSE IF u = UserB THEN ProfileB ELSE NoProfile]
    /\ pc = [p \in Sessions |-> "iter"]
    /\ username = [p \in Sessions |-> UserA]
    /\ calls = [p \in Sessions |-> <<CallRecord(Str(<<"s">>))>>]
    /\ idx = [p \in Sessions |-> 1]
    /\ response = [p \in Sessions |-> NoResponse]
    /\ extracted_info = [p \in Sessions |-> ReturnNone]
    /\ user_details = [p \in Sessions |-> NoProfile]
    /\ ui = [p \in Sessions |-> NoUi]
    /\ hist = [p \in Sessions |-> [NoHist EXCEPT !.before = accounts[UserA]]]
    /\ cmp = NoCmp
    /\ conn = NoConn
    /\ written = {}
    /\ runs = Cardinality(Sessions)

\* The steps of the two runs interleave at every call of an external service.
NextConc ==
    \E p \in Sessions :
        \/ Iterate(p)
        \/ Extract(p)
        \/ Gate(p)
        \/ Resolve(p)
        \/ Match(p)
        \/ Write(p)
        \/ ShowStatus(p)

SpecConc == InitConc /\ [][NextConc]_vars

\* The characters of the texts compare_with_fuzzy_match is called with on its own.
MatchChars == {"a", "l", " "}

\* The texts of up to MaxLen characters, the empty one included.
Texts == UNION {[1..n -> MatchChars] : n \in 0..MaxLen}

\* The arguments: a text, or None.
MatchArguments == {Str(s) : s \in Texts} \cup {None}

\* The larger of the two ratios of two arguments, as lines 153-159 compute it
\* (0 when one of them is no text).
Score(v1, v2) ==
    IF v1.k = "str" /\ v2.k = "str"
    THEN Max(Ratio(Strip(Lower(v1.s)), Strip(Lower(v2.s))),
             TokenSortRatio(Strip(Lower(v1.s)), Strip(Lower(v2.s))))
    ELSE 0

\* The thresholds tried on a pair: 0, the default, the pair's score and the
\* score plus one.
ThresholdsFor(v1, v2) == {0, Threshold, Score(v1, v2), Score(v1, v2) + 1}

\* compare_with_fuzzy_match about to be called on every pair of arguments.
InitMatch ==
    /\ accounts = [u \in Usernames |-> NoAccount]
    /\ users = [u \in Usernames |-> NoProfile]
    /\ pc = [p \in Procs |-> "idle"]
    /\ username = [p \in Procs |-> <<>>]
    /\ calls = [p \in Procs |-> <<>>]
    /\ idx = [p \in Procs |-> 0]
    /\ response = [p \in Procs |-> NoResponse]
    /\ extracted_info = [p \in Procs |-> ReturnNone]
    /\ user_details = [p \in Procs |-> NoProfile]
    /\ ui = [p \in Procs |-> NoUi]
    /\ hist = [p \in Procs |-> NoHist]
    /\ written = {}
    /\ runs = 0
    /\ conn = NoConn
    /\ \E v1 \in MatchArguments, v2 \in MatchArguments :
            \E T \in ThresholdsFor(v1, v2) :
                cmp = [NoCmp EXCEPT !.str1 = v1, !.str2 = v2, !.threshold = T]

\* The call returns.
CallCompare ==
    /\ ~cmp.called
    /\ cmp' = [cmp EXCEPT !.called = TRUE,
                          !.result = compare_with_fuzzy_match(cmp.str1, cmp.str2, cmp.threshold)]
    /\ UNCHANGED <<dbvars, localvars, pc, ui, hist, written, runs, conn>>

NextMatch == CallCompare

SpecMatch == InitMatch /\ [][NextMatch]_vars

(* -------------------- the database operations alone -------------------- *)

\* The three coroutines that use the database.
Operations == {"get_user_verification_status", "get_user_details", "update_phone_verification"}

\* An exception in the try block skips the finally clause.
PhaseWithoutFinally == "idle"

\* Lines 51-52, 61-62, 74-75: an exception in the try block runs the finally
\* clause before it leaves the coroutine.
PhaseAfterRaise == "finally"

\* conn = await connect_to_neon() (lines 38, 56, 66), outside the try: a new
\* connection, or an exception with nothing opened.
Connect ==
    /\ conn.phase = "idle"
    /\ conn.ops < MaxOps
    /\ \E op \in Operations, u \in Usernames :
        \/ conn' = [conn EXCEPT !.op = op, !.username = u, !.phase = "try",
                                !.open = @ + 1, !.opened = 1, !.statements = 0,
                                !.failed = FALSE]
        \/ conn' = [conn EXCEPT !.op = op, !.username = u, !.opened = 0, !.statements = 0,
                                !.ops = @ + 1, !.failed = TRUE]
    /\ UNCHANGED <<dbvars, pc, localvars, ui, hist, written, runs, cmp>>

\* The statement of the try block (fetchrow, lines 49 and 59; execute, line
\* 73): it completes, or raises.
Execute ==
    /\ conn.phase = "try"
    /\ \/ /\ conn' = [conn EXCEPT !.statements = @ + 1, !.phase = "finally"]
          /\ IF conn.op = "update_phone_verification"
             THEN /\ accounts' = UpdateStatement(accounts, conn.username, NewStatus)
                  /\ written' = written \cup {<<conn.username, NewStatus>>}
             ELSE UNCHANGED <<accounts, written>>
       \/ /\ conn' = [conn EXCEPT !.statements = @ + 1, !.phase = PhaseAfterRaise,
                                   !.failed = TRUE]
          /\ UNCHANGED <<accounts, written>>
    /\ UNCHANGED <<users, pc, localvars, ui, hist, runs, cmp>>

\* finally: await conn.close() (lines 52, 62, 75).  The connection is gone
\* whether close returns or raises.
Close ==
    /\ conn.phase = "finally"
    /\ \E raises \in BOOLEAN :
        conn' = [conn EXCEPT !.open = @ - 1, !.phase = "idle", !.ops = @ + 1,
                             !.failed = @ \/ raises]
    /\ UNCHANGED <<dbvars, pc, localvars, ui, hist, written, runs, cmp>>

NextStore == Connect \/ Execute \/ Close

SpecStore == Init /\ [][NextStore]_vars

(* ============================== claims ================================ *)

\* Two texts are the same at threshold T: both are non-empty str and, lowercased
\* and trimmed, their ratio or their token-sort ratio reaches T.
FuzzyEqual(a, b, T) ==
    /\ a.k = "str" /\ a.s # <<>>
    /\ b.k = "str" /\ b.s # <<>>
    /\ \/ Ratio(Strip(Lower(a.s)), Strip(Lower(b.s))) >= T
       \/ TokenSortRatio(Strip(Lower(a.s)), Strip(Lower(b.s))) >= T

\* The identity e names user u exactly and agrees with u's profile row in
\* name, phone and address.
FullIdentityMatch(e, u, row) ==
    /\ e.some
    /\ e.info.username = Str(u)
    /\ row.exists
    /\ FuzzyEqual(e.info.name, row.name, Threshold)
    /\ FuzzyEqual(e.info.phone, row.phone, Threshold)
    /\ FuzzyEqual(e.info.address, row.address, Threshold)

\* Session p is inside a run for a username.
Running(p) == pc[p] # "idle" /\ username[p] \in Usernames

\* C1: a run for username U is about to write, has written, or finds U's account
\* row other than it was at the start of the run, only if the identity extracted
\* from the current call names U exactly (case-sensitive) and its name, phone
\* and address each fuzzy-match U's profile at the threshold.
C1_VerifiedOnlyOnFullMatch ==
    \A p \in Procs :
        Running(p) =>
            /\ (pc[p] = "write" \/ hist[p].writes > 0) =>
                    FullIdentityMatch(extracted_info[p], username[p], users[username[p]])
            /\ accounts[username[p]] # hist[p].before =>
                    /\ hist[p].writes > 0
                    /\ accounts[username[p]].phone = "verified"

\* A run verified an unverified account from a name that differs from the
\* stored one.
C1_Witness ==
    \E p \in Procs :
        /\ Running(p)
        /\ hist[p].writes = 1
        /\ hist[p].before.exists /\ hist[p].before.phone = "pending"
        /\ accounts[username[p]].phone = "verified"
        /\ extracted_info[p].info.name # users[username[p]].name

\* C2: call records are visited in list order, and once a record fully matched,
\* no later record is visited, extracted, looked up or matched.
C2_StopsAtFirstMatch ==
    \A p \in Procs :
        /\ \A k \in 1..MaxCalls :
                hist[p].visited[k] > 0 => \A j \in 1..(k - 1) : hist[p].visited[j] > 0
        /\ hist[p].matched # 0 =>
                \A k \in (hist[p].matched + 1)..MaxCalls :
                    /\ hist[p].visited[k] = 0
                    /\ hist[p].extract[k] = 0
                    /\ hist[p].lookup[k] = 0
                    /\ hist[p].match[k] = 0

\* A run ended after a match on the first record, with a second record that
\* has a summary left unevaluated.
C2_Witness ==
    \E p \in Procs :
        /\ pc[p] = "done"
        /\ hist[p].matched = 1
        /\ hist[p].writes = 1
        /\ Len(calls[p]) >= 2
        /\ Truthy(calls[p][2].summary)
        /\ hist[p].extract[2] = 0

\* The exception that ended the run of p came from the processing of a call
\* record: extraction, profile lookup, matching or the write.
AbortedInCall(p) ==
    /\ pc[p] = "crashed"
    /\ ui[p].exception \in {"extract_info_from_summary", "get_user_details",
                            "compare_with_fuzzy_match", "update_phone_verification"}

\* C3: no fault met while a call record is processed ends the run with an
\* exception; the record is skipped and the loop goes on.
C3_FaultsNeverAbortTheRun == \A p \in Procs : ~AbortedInCall(p)

\* The summary extract_info_from_summary was called with is empty.
EmptyText(p) == ~Truthy(calls[p][idx[p]].summary)

\* The failure modes of a response: the request raised, no model response, a
\* text that is no JSON, JSON that is no object, an object with a field
\* missing, null or empty.
FieldUnusable(v) == v.k \in {"absent", "none"} \/ (v.k = "str" /\ v.s = <<>>)

UnusableResponse(resp) ==
    \/ resp.kind \in {"error", "nochoices", "nocontent"}
    \/ resp.content \in {<<"TXT">>, <<>>, <<"ARR">>}
    \/ \E f \in Fields : FieldUnusable(resp.obj[f])

Returned(p) == pc[p] \in {"gate", "crashed"}

\* C4 as stated: extract never raises, and returns None for empty text and for
\* every failure mode of the response.
C4_NoneOnEmptyTextAndFailures ==
    \A p \in Procs :
        Returned(p) =>
            /\ ~extracted_info[p].raised
            /\ pc[p] # "crashed"
            /\ (EmptyText(p) \/ UnusableResponse(response[p])) => ~extracted_info[p].some

\* C4, amended: extract never raises, whatever the text (the empty one
\* included) and the response, and returns None for every failure mode of the
\* response; what it returns does not depend on the text.
C4_NeverRaisesNoneOnFailures ==
    \A p \in Procs :
        Returned(p) =>
            /\ ~extracted_info[p].raised
            /\ pc[p] # "crashed"
            /\ UnusableResponse(response[p]) => ~extracted_info[p].some
            /\ \A s \in Summaries :
                    extract_info_from_summary(s, response[p]) = extracted_info[p]

\* extract was called with the empty text, the model answered JSON that is no
\* object, and None came back.
C4_Witness ==
    \E p \in Procs :
        /\ pc[p] = "gate"
        /\ EmptyText(p)
        /\ response[p].kind = "content" /\ response[p].content = <<"ARR">>
        /\ ~extracted_info[p].some

\* An identity is returned only for an object with the four fields present
\* and not null, and it is that object.
C5_IdentityNeedsAllFields ==
    \A p \in Procs :
        (pc[p] = "gate" /\ extracted_info[p].some) =>
            /\ response[p].kind = "content"
            /\ \A f \in Fields : response[p].obj[f].k \notin {"absent", "none"}
            /\ extracted_info[p].info = response[p].obj

\* A call whose extraction is None is left with no change to the store.
C5_AbsentChangesNothing ==
    \A p \in Procs :
        (pc[p] = "gate" /\ ~extracted_info[p].some) =>
            /\ accounts' = accounts
            /\ users' = users
            /\ written' = written
            /\ pc'[p] = "iter"
            /\ idx'[p] = idx[p] + 1

C6_ExactlyOneOutcome ==
    \A p \in Procs :
        (pc[p] = "done" /\ username[p] \in Usernames) =>
            /\ ui[p].status # ui[p].no_user
            /\ ~(ui[p].success /\ ui[p].no_user)
            /\ (hist[p].before.exists /\ hist[p].before.phone = "verified") => ~ui[p].success

\* No UPDATE is executed with a status other than verified.
C7_OnlyVerifiedWritten == \A w \in written : w[2] = "verified"

\* A verified phone_verification stays verified.
C7_StaysVerified ==
    \A u \in Usernames :
        (accounts[u].exists /\ accounts[u].phone = "verified") =>
            (accounts'[u].exists /\ accounts'[u].phone = "verified")

\* C7: over any sequence of runs phone_verification only moves forward: once
\* verified it stays verified, and no run writes another status.
C7_ForwardOnly ==
    /\ []C7_OnlyVerifiedWritten
    /\ [][C7_StaysVerified]_vars

\* A later run wrote to an account that an earlier run had verified.
C7_Witness ==
    \E p \in Procs :
        /\ runs = 2
        /\ username[p] = UserA
        /\ hist[p].before.phone = "verified"
        /\ hist[p].writes = 1
        /\ accounts[UserA].phone = "verified"
        /\ <<UserA, "verified">> \in written

\* C8: a step of a run for username U leaves every users row, every account's
\* existence, photo_verification and doc_verification, and the
\* phone_verification of every account other than U as they are.
C8_Frame ==
    [][/\ users' = users
       /\ \A u \in Usernames :
            /\ accounts'[u].exists = accounts[u].exists
            /\ accounts'[u].photo = accounts[u].photo
            /\ accounts'[u].doc = accounts[u].doc
            /\ accounts'[u].phone # accounts[u].phone =>
                    \E p \in Procs : pc[p] = "write" /\ username[p] = u]_vars

\* After a write, a run for another target extracts the username of an
\* account that is still pending.
C8_Witness ==
    \E p \in Procs :
        /\ written # {}
        /\ pc[p] = "gate"
        /\ username[p] = UserA
        /\ extracted_info[p].some
        /\ extracted_info[p].info.username = Str(UserB)
        /\ accounts[UserB].exists /\ accounts[UserB].phone = "pending"
        /\ accounts[UserA].phone = "verified"

\* C9: a run executes the UPDATE at most once.
C9_AtMostOneWrite == \A p \in Procs : hist[p].writes <= 1

\* A run has written at the first of two records and left the loop.
C9_Witness ==
    \E p \in Procs :
        /\ pc[p] = "status"
        /\ hist[p].writes = 1
        /\ hist[p].matched = 1
        /\ Len(calls[p]) = 2
        /\ ui[p].success

\* The UPDATE applied twice to the table gives what it gives applied once:
\* verified for the row of u, every other column and row as before.
C10_UpdateTwiceIsUpdateOnce ==
    \A u \in Usernames :
        LET once == UpdateStatement(accounts, u, NewStatus)
            twice == UpdateStatement(once, u, NewStatus)
        IN  /\ twice = once
            /\ accounts[u].exists => once[u] = [accounts[u] EXCEPT !.phone = "verified"]
            /\ \A v \in Usernames \ {u} : once[v] = accounts[v]

\* A write to an account that is verified already changes nothing.
C10_RewriteChangesNothing ==
    \A p \in Procs :
        (/\ pc[p] = "write"
         /\ accounts[username[p]].exists
         /\ accounts[username[p]].phone = "verified") => accounts' = accounts

\* C10: setPhoneVerified is idempotent: a second invocation for the same
\* username leaves the store as the first left it.
C10_Idempotent ==
    /\ []C10_UpdateTwiceIsUpdateOnce
    /\ [][C10_RewriteChangesNothing]_vars

\* A run wrote verified over verified and went on to show the status, with no
\* exception.
C10_Witness ==
    \E p \in Procs :
        /\ pc[p] = "done"
        /\ hist[p].before.exists /\ hist[p].before.phone = "verified"
        /\ hist[p].writes = 1
        /\ ui[p].success /\ ui[p].status
        /\ ui[p].exception = ""

\* The run of session p is over.
Ended(p) == pc[p] \in {"done", "crashed"}

\* Whatever the other session does.  A write sets the row to verified.
C11_WriteVerifies ==
    \A p \in Sessions :
        hist'[p].writes = hist[p].writes + 1 => accounts'[UserA].phone = "verified"

\* Once a write was executed the row is verified, and stays so.
C11_VerifiedAfterAnyWrite ==
    (\E p \in Sessions : hist[p].writes > 0) => accounts[UserA].phone = "verified"

\* A run that found a full match is not stopped by the other: it ends with the
\* write executed and the success message, or with an exception of its own
\* database call.
C11_NoRunFailsByTheOther ==
    \A p \in Sessions :
        /\ (hist[p].matched # 0 /\ Ended(p)) =>
                \/ hist[p].writes = 1 /\ ui[p].success
                \/ ui[p].exception = "update_phone_verification"
        /\ (hist[p].matched # 0 /\ pc[p] = "done") => ui[p].status
        /\ hist[p].writes > 0 => FullIdentityMatch(extracted_info[p], UserA, users[UserA])

Normalized(s) == Strip(Lower(s)) = s

\* C12: for every threshold T and every pair of non-empty normalized texts a, b,
\* compare_with_fuzzy_match(a, b, T) is true exactly when the larger of
\* ratio(a, b) and token_sort_ratio(a, b) is at least T.
C12_TrueIffMaxScoreReachesThreshold ==
    (/\ cmp.called
     /\ cmp.str1.k = "str" /\ cmp.str1.s # <<>> /\ Normalized(cmp.str1.s)
     /\ cmp.str2.k = "str" /\ cmp.str2.s # <<>> /\ Normalized(cmp.str2.s)) =>
        /\ ~cmp.result.raised
        /\ cmp.result.value <=>
                (\/ Ratio(cmp.str1.s, cmp.str2.s) >= cmp.threshold
                 \/ TokenSortRatio(cmp.str1.s, cmp.str2.s) >= cmp.threshold)

\* Two different texts that only the token-sort ratio brings to the threshold,
\* which equals their score: the comparison is true at the boundary.
C12_Witness ==
    /\ cmp.called
    /\ cmp.str1.s # <<>> /\ Normalized(cmp.str1.s)
    /\ cmp.str2.s # <<>> /\ Normalized(cmp.str2.s)
    /\ cmp.str1 # cmp.str2
    /\ Ratio(cmp.str1.s, cmp.str2.s) < cmp.threshold
    /\ TokenSortRatio(cmp.str1.s, cmp.str2.s) = cmp.threshold
    /\ cmp.result.value

\* An argument is empty or absent.
EmptyOrAbsent(v) == v = None \/ v = Str(<<>>)

\* C13: with an empty or absent argument compare_with_fuzzy_match is false,
\* whatever the other argument and the threshold (0 included), and computes no
\* ratio.
C13_EmptyNeverMatches ==
    (cmp.called /\ (EmptyOrAbsent(cmp.str1) \/ EmptyOrAbsent(cmp.str2))) =>
        /\ ~cmp.result.value
        /\ ~cmp.result.raised
        /\ ~cmp.result.scored

\* Called with the empty text, a text and threshold 0: false.
C13_Witness ==
    /\ cmp.called
    /\ cmp.str1 = Str(<<>>)
    /\ cmp.str2.k = "str" /\ cmp.str2.s # <<>>
    /\ cmp.threshold = 0
    /\ ~cmp.result.value

\* The target of the run of p has no row in users, and a call of the run has
\* reached the profile lookup.
NoProfileRun(p) ==
    /\ username[p] \in Usernames
    /\ ~users[username[p]].exists
    /\ \E k \in 1..MaxCalls : hist[p].lookup[k] > 0

AllVisited(p) == \A k \in 1..Len(calls[p]) : hist[p].visited[k] = 1

\* The page shows a phone status other than verified, and no success.
NotVerifiedOutcome(p) ==
    /\ ui[p].status /\ ~ui[p].no_user /\ ~ui[p].success
    /\ accounts[username[p]].exists /\ accounts[username[p]].phone # "verified"

C14_MissingRowSkipsTheCall ==
    \A p \in Procs :
        (pc[p] = "resolve" /\ username[p] \in Usernames /\ ~users[username[p]].exists
            /\ pc'[p] \notin {"resolve", "crashed"}) =>
                /\ pc'[p] = "iter"
                /\ idx'[p] = idx[p] + 1
                /\ accounts' = accounts /\ written' = written /\ ui' = ui

\* No comparison, no write and no success in a run whose target has no users
\* row; the finished run has visited every call and shows the account as it
\* was before the run, or that no such user exists.
C14_NoProfileChangesNothing ==
    \A p \in Procs :
        NoProfileRun(p) =>
            /\ \A k \in 1..MaxCalls : hist[p].match[k] = 0
            /\ hist[p].writes = 0 /\ ~ui[p].success
            /\ ui[p].exception \notin {"compare_with_fuzzy_match", "update_phone_verification"}
            /\ pc[p] = "done" =>
                    /\ AllVisited(p)
                    /\ accounts[username[p]] = hist[p].before
                    /\ ui[p].status # ui[p].no_user
                    /\ ui[p].status <=> accounts[username[p]].exists

FetchFailed(p) == ui[p].fetch_error /\ username[p] \in Usernames

\* Nothing of the run of p has processed a call record.
NoCallProcessed(p) ==
    /\ \A k \in 1..MaxCalls :
            /\ hist[p].visited[k] = 0 /\ hist[p].extract[k] = 0
            /\ hist[p].lookup[k] = 0 /\ hist[p].match[k] = 0
    /\ hist[p].writes = 0 /\ ~ui[p].success

\* C15 as stated: after a failed call-log request the run processes nothing
\* and a finished run shows the not-verified outcome.
C15_FetchFailureEndsNotVerified ==
    \A p \in Procs :
        FetchFailed(p) =>
            /\ calls[p] = <<>> /\ NoCallProcessed(p)
            /\ pc[p] = "done" => NotVerifiedOutcome(p)

\* C15 (amended): a failed call-log request gives the empty list and no
\* exception; the loop ends at once, with no extraction, lookup, comparison
\* or write; the account is as before the run, and a finished run shows its
\* status (verified or not), or "no user found" when it has no accounts row.
C15_FetchFailureProcessesNothing ==
    \A p \in Procs :
        FetchFailed(p) =>
            /\ calls[p] = <<>> /\ NoCallProcessed(p)
            /\ pc[p] \in {"iter", "status", "done", "crashed"}
            /\ pc[p] = "crashed" => ui[p].exception = "get_user_verification_status"
            /\ accounts[username[p]] = hist[p].before
            /\ pc[p] = "done" =>
                    /\ ui[p].status # ui[p].no_user
                    /\ ui[p].status <=> accounts[username[p]].exists

\* A finished run after a failed request, for a username with no accounts row.
C15_Witness ==
    \E p \in Procs :
        /\ pc[p] = "done" /\ FetchFailed(p)
        /\ ui[p].no_user /\ ~accounts[username[p]].exists

\* C16: a run that reports success has executed its write without error, and
\* the accounts row of its target exists and holds phone_verification =
\* 'verified'.
C16_SuccessMeansVerifiedRow ==
    \A p \in Procs :
        (ui[p].success /\ username[p] \in Usernames) =>
            /\ hist[p].writes = 1
            /\ ui[p].exception # "update_phone_verification"
            /\ accounts[username[p]].exists
            /\ accounts[username[p]].phone = "verified"

\* Each step of call processing has run at most once for each call of the
\* run, and a reported success has ended the loop.
C17_AtMostOncePerCall ==
    \A p \in Procs :
        /\ \A k \in 1..MaxCalls :
                /\ hist[p].visited[k] <= 1 /\ hist[p].extract[k] <= 1
                /\ hist[p].lookup[k] <= 1 /\ hist[p].match[k] <= 1
        /\ ui[p].success => pc[p] \in {"status", "done", "crashed"}

\* Within a run the position never goes back, and once the loop has ended
\* (break or exhaustion) no call is processed.
C17_OneDirection ==
    \A p \in Procs :
        /\ pc[p] \notin {"idle", "done", "crashed"} => idx'[p] >= idx[p]
        /\ (pc[p] \in {"status", "done"} /\ pc'[p] # "idle") =>
                /\ pc'[p] \in {"status", "done", "crashed"}
                /\ idx'[p] = idx[p] /\ hist'[p] = hist[p]
                /\ accounts' = accounts /\ written' = written

\* C17: the loop of main is single-pass and has no retry: each call is
\* visited at most once, extraction runs at most once per call, the position
\* in the call list never decreases, and after the break on success or the
\* end of the list no further call is processed.
C17_SinglePassNoRetry == [](C17_AtMostOncePerCall) /\ [][C17_OneDirection]_vars

\* A finished run that went through two calls, each extracted once, with no
\* match.
C17_Witness ==
    \E p \in Procs :
        /\ pc[p] = "done" /\ ~ui[p].success /\ Len(calls[p]) = 2
        /\ \A k \in 1..2 : hist[p].visited[k] = 1 /\ hist[p].extract[k] = 1

\* The call at hand of p has an extraction whose username is not the target.
OtherUsername(p) ==
    /\ pc[p] = "gate" /\ extracted_info[p].some
    /\ extracted_info[p].info.username # Str(username[p])

\* The gate sends a call with another username on to the next call at once.
C18_GateSkips ==
    \A p \in Procs :
        OtherUsername(p) /\ pc'[p] # pc[p] =>
            /\ pc'[p] = "iter" /\ idx'[p] = idx[p] + 1
            /\ hist'[p] = hist[p]
            /\ accounts' = accounts /\ written' = written /\ ui' = ui

\* Lookup, comparison and write only ever work on a call whose extracted
\* username is the target.
C18_OnlyTheTargetGoesOn ==
    \A p \in Procs :
        pc[p] \in {"resolve", "match", "write"} =>
            /\ extracted_info[p].some
            /\ extracted_info[p].info.username = Str(username[p])

\* C18: a call whose extracted username is not exactly the target username
\* is skipped with no profile lookup, no field comparison and no write.
C18_OtherUsernameIsSkipped == [](C18_OnlyTheTargetGoesOn) /\ [][C18_GateSkips]_vars

\* At the gate with an extraction for "A" while the target is "a", and a
\* complete identity that would otherwise match.
C18_Witness ==
    \E p \in Procs :
        /\ OtherUsername(p) /\ username[p] = UserA
        /\ extracted_info[p].info.username = Str(UserACap)
        /\ users[UserA].exists
        /\ AllMatch(extracted_info[p].info, users[UserA])

\* No connection is open between operations, at most one within one, and an
\* operation opens at most one connection and runs at most one statement.
C19_NothingOpenBetweenOperations ==
    /\ conn.open = (IF conn.phase = "idle" THEN 0 ELSE 1)
    /\ conn.opened <= 1 /\ conn.statements <= 1
    /\ conn.phase = "finally" => conn.opened = 1 /\ conn.statements = 1

\* An operation that ends leaves nothing open, and if it did not fail it has
\* opened one connection and run one statement.
C19_OperationReleases ==
    conn'.ops = conn.ops + 1 =>
        /\ conn'.open = 0 /\ conn'.phase = "idle"
        /\ ~conn'.failed => conn'.opened = 1 /\ conn'.statements = 1

\* C19: each database operation opens one new connection, executes one
\* statement and closes the connection on every exit path, so that after it
\* returns or fails no connection it opened is open, over any sequence of
\* operations and faults.
C19_ConnectionsAreReleased ==
    [](C19_NothingOpenBetweenOperations) /\ [][C19_OperationReleases]_vars

\* An operation whose statement raised has ended, after an earlier operation.
C19_Witness ==
    /\ conn.phase = "idle" /\ conn.ops >= 2
    /\ conn.failed /\ conn.opened = 1 /\ conn.statements = 1 /\ conn.open = 0

\* C20: a response that holds a JSON object inside a code fence, with or
\* without a language label, is extracted to the same result as the object
\* on its own.
C20_FenceIsStripped ==
    \A p \in Procs :
        (pc[p] \in {"gate", "crashed"} /\ response[p].kind = "content"
            /\ response[p].content \in ObjectContents) =>
                extracted_info[p] =
                    extract_info_from_summary(calls[p][idx[p]].summary,
                                              Response("content", <<"OBJ">>, response[p].obj))

====
